---- MODULE Spec2Model ----
(***************************************************************************)
(* A model of the YouTube AI content workflow: the per-stage tools         *)
(* (scripts/download_video.py, transcribe_audio.py, summarize_text.py,     *)
(* generate_blog.py), their command-line entry points, and the pipeline    *)
(* orchestrator (scripts/process_video.py).                                *)
(*                                                                         *)
(* The bodies of process_video, validate_video_url and create_podcast are  *)
(* `pass` in the repository; the orchestrator, the artifact store's lookup *)
(* and the podcast stage are therefore modelled from the design document   *)
(* and are marked as such where they are defined.  Everything else is      *)
(* translated from the scripts.                                            *)
(*                                                                         *)
(* One process runs at a time: either one command-line tool (caller =     *)
(* "cli") or one orchestrator run (caller = "run").  A stage function is   *)
(* executed in steps (fn, fpc) so that a backend call, the opening of an   *)
(* output file and the write to it are distinct points at which the        *)
(* process can be interrupted.  The output directory (fs) outlives the     *)
(* process.                                                                *)
(***************************************************************************)
EXTENDS Integers, FiniteSets, Sequences, TLC

VARIABLES
    caller,       \* "none" | "cli" | "run": who called the stage function
    fn,           \* the stage function being executed, or "none"
    fpc,          \* the position inside fn
    fret,         \* "pending" | "value" | "None" | "raised": how fn returned
    args,         \* the arguments and module flags of the current call
    calls,        \* backend operation -> number of calls made by the current call of fn
    fs,           \* file -> "absent" | "empty" | "partial" | "full"
    dirty,        \* files created or overwritten since the process started
    faults,       \* kinds of failure met by the current call of fn
    buf,          \* the content the current call is about to write
    exitCode,     \* -1 while running, else the exit status of the last process
    interrupted,  \* the file whose write was cut short by the last interruption
    rpc,          \* position of the orchestrator's run
    cur,          \* the stage whose executor the run is waiting for
    manifest,     \* stage -> outcome ("Absent" when the manifest has no entry)
    invoked,      \* stage -> number of times the run invoked its executor
    execFault,    \* stages whose executor met a failure in this run
    ctx,          \* the run context
    lastRunAllOk, \* the previous run ended with every stage Success or Skipped
    rerun         \* this run repeats a fully successful run with the same context

vars == <<caller, fn, fpc, fret, args, calls, fs, dirty, faults, buf, exitCode,
          interrupted, rpc, cur, manifest, invoked, execFault, ctx,
          lastRunAllOk, rerun>>

runVars == <<rpc, cur, manifest, invoked, execFault, ctx, lastRunAllOk, rerun>>

\* What a step of a stage function leaves alone besides what it names.
fnFrame == <<caller, fn, args, exitCode, interrupted, runVars>>

(***************************************************************************)
(* Domains                                                                 *)
(***************************************************************************)
Stages == {"Download", "Transcribe", "Summarize", "BlogGen", "PodcastGen"}

Files == {"media", "transcript", "segments", "summary", "blog", "podcast"}

Backends == {"extract_info", "download", "load_model", "transcribe",
             "transformers", "openai", "tts"}

\* "watch" is a recognisable video URL, "ftp" a URI with a scheme the
\* downloader does not support, "noturl" the string "not-a-url".
Urls == {"watch", "ftp", "noturl"}

Methods == {"transformers", "openai", "template"}

\* tf and oa are the module flags TRANSFORMERS_AVAILABLE and OPENAI_AVAILABLE.
NoArgs == [url |-> "none", method |-> "none", tf |-> FALSE, oa |-> FALSE]

NoCtx == [url |-> "none", method |-> "none", summ |-> "none", blog |-> "none",
          tf |-> FALSE, oa |-> FALSE]

NoCalls == [b \in Backends |-> 0]

(***************************************************************************)
(* Helpers shared by the stage functions                                   *)
(***************************************************************************)
\* A call of a stage function begins: nothing called, nothing failed yet.
Enter(f, pc, a) ==
    /\ fn' = f
    /\ fpc' = pc
    /\ fret' = "pending"
    /\ args' = a
    /\ calls' = NoCalls
    /\ faults' = {}
    /\ buf' = "absent"

\* The function returns None after meeting failure `kind`.
ReturnNone(kind) ==
    /\ fpc' = "ret"
    /\ fret' = "None"
    /\ faults' = faults \cup {kind}

\* An exception of kind `kind` leaves the function uncaught.
Raise(kind) ==
    /\ fpc' = "ret"
    /\ fret' = "raised"
    /\ faults' = faults \cup {kind}

ReturnValue ==
    /\ fpc' = "ret"
    /\ fret' = "value"
    /\ UNCHANGED faults

\* open(path, 'w'): the file exists at its final path, truncated.
OpenW(f) ==
    /\ fs' = [fs EXCEPT ![f] = "empty"]
    /\ dirty' = dirty \cup {f}

\* f.write(content) and the close that ends the with-block.
CloseW(f, content) ==
    /\ fs' = [fs EXCEPT ![f] = content]
    /\ UNCHANGED dirty

\* A write that fails part-way (OSError): what was flushed stays on disk.
FailW(f, left) ==
    /\ fs' = [fs EXCEPT ![f] = left]
    /\ UNCHANGED dirty

Call(b) == calls' = [calls EXCEPT ![b] = @ + 1]

(***************************************************************************)
(* download_video.py                                                       *)
(***************************************************************************)
\* ydl.extract_info(url, download=False): the first thing done with the url.
download_video_extract_info ==
    /\ fn = "download_video" /\ fpc = "extract_info"
    /\ Call("extract_info")
    /\ \/ /\ args.url = "watch"
          /\ fpc' = "download"
          /\ UNCHANGED <<fret, faults>>
       \/ ReturnNone("backend_error")
    /\ UNCHANGED <<fs, dirty, buf>>
    /\ UNCHANGED fnFrame

\* ydl.download([url]) and the return of the file name.
download_video_download ==
    /\ fn = "download_video" /\ fpc = "download"
    /\ Call("download")
    /\ \/ /\ fs' = [fs EXCEPT !["media"] = "full"]
          /\ dirty' = dirty \cup {"media"}
          /\ ReturnValue
       \/ /\ ReturnNone("backend_error")
          /\ UNCHANGED <<fs, dirty>>
    /\ UNCHANGED buf
    /\ UNCHANGED fnFrame

(***************************************************************************)
(* transcribe_audio.py                                                     *)
(***************************************************************************)
\* whisper.load_model(model_size): before the try block, so a failure to
\* load the model leaves transcribe_audio as an exception.
transcribe_audio_load_model ==
    /\ fn = "transcribe_audio" /\ fpc = "load_model"
    /\ Call("load_model")
    /\ \/ /\ fpc' = "transcribe"
          /\ UNCHANGED <<fret, faults>>
       \/ Raise("backend_unavailable")
    /\ UNCHANGED <<fs, dirty, buf>>
    /\ UNCHANGED fnFrame

\* model.transcribe(audio_file): the text may be empty (no speech); an
\* exception is caught and the function returns None.
transcribe_audio_transcribe ==
    /\ fn = "transcribe_audio" /\ fpc = "transcribe"
    /\ Call("transcribe")
    /\ \/ /\ fs["media"] = "full"
          /\ \E text \in {"empty", "full"} : buf' = text
          /\ fpc' = "open_transcript"
          /\ UNCHANGED <<fret, faults>>
       \/ /\ ReturnNone("backend_error")
          /\ UNCHANGED buf
    /\ UNCHANGED <<fs, dirty>>
    /\ UNCHANGED fnFrame

\* open(transcript_file, 'w')
transcribe_audio_open_transcript ==
    /\ fn = "transcribe_audio" /\ fpc = "open_transcript"
    /\ OpenW("transcript")
    /\ fpc' = "write_transcript"
    /\ UNCHANGED <<fret, faults, calls, buf>>
    /\ UNCHANGED fnFrame

\* f.write(result['text']); an OSError is caught by the except clause.
transcribe_audio_write_transcript ==
    /\ fn = "transcribe_audio" /\ fpc = "write_transcript"
    /\ \/ /\ CloseW("transcript", buf)
          /\ fpc' = "open_segments"
          /\ UNCHANGED <<fret, faults>>
       \/ /\ \E left \in {"empty", "partial"} : FailW("transcript", left)
          /\ ReturnNone("io_error")
    /\ UNCHANGED <<calls, buf>>
    /\ UNCHANGED fnFrame

\* open(segments_file, 'w')
transcribe_audio_open_segments ==
    /\ fn = "transcribe_audio" /\ fpc = "open_segments"
    /\ OpenW("segments")
    /\ fpc' = "write_segments"
    /\ UNCHANGED <<fret, faults, calls, buf>>
    /\ UNCHANGED fnFrame

\* the loop writing one line per segment, then `return result`
transcribe_audio_write_segments ==
    /\ fn = "transcribe_audio" /\ fpc = "write_segments"
    /\ \/ /\ CloseW("segments", buf)
          /\ ReturnValue
       \/ /\ \E left \in {"empty", "partial"} : FailW("segments", left)
          /\ ReturnNone("io_error")
    /\ UNCHANGED <<calls, buf>>
    /\ UNCHANGED fnFrame

(***************************************************************************)
(* summarize_text.py                                                       *)
(***************************************************************************)
\* The read of the input file and the choice of the method, up to the
\* backend call.
summarize_text_read ==
    /\ fn = "summarize_text" /\ fpc = "read"
    /\ \/ ReturnNone("missing_input")
       \/ /\ fs["transcript"] # "absent"
          /\ IF args.method = "transformers"
             THEN IF args.tf
                  THEN fpc' = "call" /\ UNCHANGED <<fret, faults>>
                  ELSE ReturnNone("backend_unavailable")
             ELSE IF args.method = "openai"
             THEN IF args.oa
                  THEN fpc' = "call" /\ UNCHANGED <<fret, faults>>
                  ELSE ReturnNone("backend_unavailable")
             ELSE ReturnNone("unknown_method")
    /\ UNCHANGED <<fs, dirty, calls, buf>>
    /\ UNCHANGED fnFrame

\* summarize_text_call with a failed backend call tried again.
summarize_text_call_retry ==
    /\ fn = "summarize_text" /\ fpc = "call"
    /\ Call(args.method)
    /\ \/ /\ buf' = "full"
          /\ fpc' = "open"
          /\ UNCHANGED <<fret, faults>>
       \/ /\ faults' = faults \cup {"backend_error"}
          /\ UNCHANGED <<fpc, fret, buf>>
       \/ /\ ReturnNone("empty_result")
          /\ UNCHANGED buf
    /\ UNCHANGED <<fs, dirty>>
    /\ UNCHANGED fnFrame

\* summarize_with_transformers / summarize_with_openai: one call of the
\* chosen backend; an exception inside it comes back as None, and a None or
\* empty summary makes summarize_text return None.
summarize_text_call ==
    /\ fn = "summarize_text" /\ fpc = "call"
    /\ Call(args.method)
    /\ \/ /\ buf' = "full"
          /\ fpc' = "open"
          /\ UNCHANGED <<fret, faults>>
       \/ /\ ReturnNone("backend_error")
          /\ UNCHANGED buf
       \/ /\ ReturnNone("empty_result")
          /\ UNCHANGED buf
    /\ UNCHANGED <<fs, dirty>>
    /\ UNCHANGED fnFrame

\* open(summary_file, 'w')
summarize_text_open ==
    /\ fn = "summarize_text" /\ fpc = "open"
    /\ OpenW("summary")
    /\ fpc' = "write"
    /\ UNCHANGED <<fret, faults, calls, buf>>
    /\ UNCHANGED fnFrame

\* f.write(summary) and `return summary`; the write is outside any try.
summarize_text_write ==
    /\ fn = "summarize_text" /\ fpc = "write"
    /\ \/ /\ CloseW("summary", buf)
          /\ ReturnValue
       \/ /\ \E left \in {"empty", "partial"} : FailW("summary", left)
          /\ Raise("io_error")
    /\ UNCHANGED <<calls, buf>>
    /\ UNCHANGED fnFrame

(***************************************************************************)
(* generate_blog.py                                                        *)
(***************************************************************************)
\* generate_blog_read with OPENAI_AVAILABLE checked before the method is.
generate_blog_read_guarded ==
    /\ fn = "generate_blog" /\ fpc = "read"
    /\ \/ /\ ReturnNone("missing_input")
          /\ UNCHANGED buf
       \/ /\ fs["summary"] # "absent"
          /\ IF ~args.oa
             THEN ReturnNone("backend_unavailable") /\ UNCHANGED buf
             ELSE IF args.method = "openai"
             THEN fpc' = "call" /\ UNCHANGED <<fret, faults, buf>>
             ELSE fpc' = "open" /\ buf' = "full" /\ UNCHANGED <<fret, faults>>
    /\ UNCHANGED <<fs, dirty, calls>>
    /\ UNCHANGED fnFrame

\* The read of the summary and the choice of the method.  Any method other
\* than "openai" is the template: generate_blog_template builds the post
\* from the summary, the title and the date and calls nothing.
generate_blog_read ==
    /\ fn = "generate_blog" /\ fpc = "read"
    /\ \/ /\ ReturnNone("missing_input")
          /\ UNCHANGED buf
       \/ /\ fs["summary"] # "absent"
          /\ IF args.method = "openai"
             THEN IF args.oa
                  THEN fpc' = "call" /\ UNCHANGED <<fret, faults, buf>>
                  ELSE ReturnNone("backend_unavailable") /\ UNCHANGED buf
             ELSE fpc' = "open" /\ buf' = "full" /\ UNCHANGED <<fret, faults>>
    /\ UNCHANGED <<fs, dirty, calls>>
    /\ UNCHANGED fnFrame

\* generate_blog_with_openai: one call; an exception comes back as None.
generate_blog_call ==
    /\ fn = "generate_blog" /\ fpc = "call"
    /\ Call("openai")
    /\ \/ /\ buf' = "full"
          /\ fpc' = "open"
          /\ UNCHANGED <<fret, faults>>
       \/ /\ ReturnNone("backend_error")
          /\ UNCHANGED buf
       \/ /\ ReturnNone("empty_result")
          /\ UNCHANGED buf
    /\ UNCHANGED <<fs, dirty>>
    /\ UNCHANGED fnFrame

\* open(blog_file, 'w')
generate_blog_open ==
    /\ fn = "generate_blog" /\ fpc = "open"
    /\ OpenW("blog")
    /\ fpc' = "write"
    /\ UNCHANGED <<fret, faults, calls, buf>>
    /\ UNCHANGED fnFrame

\* f.write(blog_content) and `return blog_content`; outside any try.
generate_blog_write ==
    /\ fn = "generate_blog" /\ fpc = "write"
    /\ \/ /\ CloseW("blog", buf)
          /\ ReturnValue
       \/ /\ \E left \in {"empty", "partial"} : FailW("blog", left)
          /\ Raise("io_error")
    /\ UNCHANGED <<calls, buf>>
    /\ UNCHANGED fnFrame

(***************************************************************************)
(* create_podcast.py.  The body of create_podcast is `pass`; the stage is  *)
(* modelled from the design document: it turns the summary into audio      *)
(* with one synthesis call and persists the audio atomically, or fails.    *)
(***************************************************************************)
create_podcast_synthesize ==
    /\ fn = "create_podcast" /\ fpc = "synthesize"
    /\ Call("tts")
    /\ \/ /\ fs' = [fs EXCEPT !["podcast"] = "full"]
          /\ dirty' = dirty \cup {"podcast"}
          /\ ReturnValue
       \/ /\ Raise("backend_error")
          /\ UNCHANGED <<fs, dirty>>
    /\ UNCHANGED buf
    /\ UNCHANGED fnFrame

(***************************************************************************)
(* process_video.py.  The bodies of process_video and validate_video_url   *)
(* are `pass`; the run is modelled from the design document (sections 3,   *)
(* 4.1 and 4.2).  main() is translated from the script.                    *)
(***************************************************************************)
\* Preds with the stages chained: PodcastGen made to wait for BlogGen.
PredsChained(S) ==
    CASE S = "Download"   -> {}
      [] S = "Transcribe" -> {"Download"}
      [] S = "Summarize"  -> {"Transcribe"}
      [] S = "BlogGen"    -> {"Summarize"}
      [] S = "PodcastGen" -> {"Summarize", "BlogGen"}

\* The declared predecessors of a stage.
Preds(S) ==
    CASE S = "Download"   -> {}
      [] S = "Transcribe" -> {"Download"}
      [] S = "Summarize"  -> {"Transcribe"}
      [] S = "BlogGen"    -> {"Summarize"}
      [] S = "PodcastGen" -> {"Summarize"}

\* The file that holds a stage's artifact.
ArtifactFile(S) ==
    CASE S = "Download"   -> "media"
      [] S = "Transcribe" -> "transcript"
      [] S = "Summarize"  -> "summary"
      [] S = "BlogGen"    -> "blog"
      [] S = "PodcastGen" -> "podcast"

\* The stage function bound to a stage and where it starts.
Executor(S) ==
    CASE S = "Download"   -> <<"download_video", "extract_info">>
      [] S = "Transcribe" -> <<"transcribe_audio", "load_model">>
      [] S = "Summarize"  -> <<"summarize_text", "read">>
      [] S = "BlogGen"    -> <<"generate_blog", "read">>
      [] S = "PodcastGen" -> <<"create_podcast", "synthesize">>

Ok(outcome) == outcome \in {"Success", "Skipped"}

\* validate_video_url accepting any string.
validate_video_url_any(url) == TRUE

\* A recognisable video URL.
validate_video_url(url) == url = "watch"

\* Artifact store lookup: a file exists at the stage's path and passes the
\* stage's minimal check (non-empty text; a readable container for media
\* and audio).  TRUE stands for "an artifact", FALSE for None.
lookup(S) ==
    IF ArtifactFile(S) \in {"media", "podcast"}
    THEN fs[ArtifactFile(S)] = "full"
    ELSE fs[ArtifactFile(S)] \in {"partial", "full"}

\* Gate with the check of the predecessors' outcomes left out.
GateAlways(S) == TRUE

\* Step 2a: S is attempted only if every predecessor is Success or Skipped.
Gate(S) == \A p \in Preds(S) : Ok(manifest[p])

\* S is next in some topological order: it has no entry and every
\* predecessor has one.  BlogGen and PodcastGen may come in either order.
Schedulable(S) ==
    /\ manifest[S] = "Absent"
    /\ \A p \in Preds(S) : manifest[p] # "Absent"

\* Step 2c: what the run records for what the executor did.  An executor
\* that returned None or raised is a failure captured as data.
Recorded(ret) == IF ret = "value" THEN "Success" ELSE "Failed"

\* Propagates with an executor's exception left uncaught by the run.
PropagatesUncaught(ret) == ret = "raised"

\* Step 3: the run never raises; no way an executor ends reaches the caller
\* as an exception.
Propagates(ret) == FALSE

\* The run contexts explored: every choice of backends and module flags for
\* the well-formed source; one choice for each malformed source, which is
\* rejected before the backends matter.
RunContexts ==
    [url : {"watch"}, method : {"none"}, summ : Methods,
     blog : {"template", "openai"}, tf : BOOLEAN, oa : BOOLEAN]
    \cup
    [url : Urls \ {"watch"}, method : {"none"}, summ : {"transformers"},
     blog : {"template"}, tf : {TRUE}, oa : {TRUE}]

\* The arguments the run passes to the executor of S.
ExecutorArgs(S) ==
    [url |-> ctx.url,
     method |-> IF S = "Summarize" THEN ctx.summ
                ELSE IF S = "BlogGen" THEN ctx.blog ELSE "none",
     tf |-> ctx.tf, oa |-> ctx.oa]

\* main() up to the call of process_video: a new process and a new run.
process_video_main ==
    /\ caller = "none"
    /\ caller' = "run"
    /\ \E c \in RunContexts :
         /\ ctx' = c
         /\ rerun' = (lastRunAllOk /\ c = ctx)
    /\ rpc' = "validate"
    /\ cur' = "none"
    /\ manifest' = [s \in Stages |-> "Absent"]
    /\ invoked' = [s \in Stages |-> 0]
    /\ execFault' = {}
    /\ lastRunAllOk' = FALSE
    /\ exitCode' = -1
    /\ interrupted' = "none"
    /\ dirty' = {}
    /\ fn' = "none" /\ fpc' = "exited" /\ fret' = "pending"
    /\ args' = NoArgs /\ calls' = NoCalls /\ faults' = {} /\ buf' = "absent"
    /\ UNCHANGED fs

\* Step 1: fail fast with InvalidInput, before any stage.
process_video_validate ==
    /\ caller = "run" /\ rpc = "validate"
    /\ rpc' = IF validate_video_url(ctx.url) THEN "walk" ELSE "raised"
    /\ UNCHANGED <<caller, fn, fpc, fret, args, calls, fs, dirty, faults, buf,
                   exitCode, interrupted, cur, manifest, invoked, execFault,
                   ctx, lastRunAllOk, rerun>>

\* Step 2a, a predecessor failed: NotAttempted.
process_video_not_attempted(S) ==
    /\ caller = "run" /\ rpc = "walk"
    /\ Schedulable(S)
    /\ ~Gate(S)
    /\ manifest' = [manifest EXCEPT ![S] = "NotAttempted"]
    /\ UNCHANGED <<caller, fn, fpc, fret, args, calls, fs, dirty, faults, buf,
                   exitCode, interrupted, rpc, cur, invoked, execFault,
                   ctx, lastRunAllOk, rerun>>

\* Step 2b, a valid artifact exists: Skipped.
process_video_skip(S) ==
    /\ caller = "run" /\ rpc = "walk"
    /\ Schedulable(S)
    /\ Gate(S)
    /\ lookup(S)
    /\ manifest' = [manifest EXCEPT ![S] = "Skipped"]
    /\ UNCHANGED <<caller, fn, fpc, fret, args, calls, fs, dirty, faults, buf,
                   exitCode, interrupted, rpc, cur, invoked, execFault,
                   ctx, lastRunAllOk, rerun>>

\* Step 2c: the executor of S is invoked, once.
process_video_invoke(S) ==
    /\ caller = "run" /\ rpc = "walk"
    /\ Schedulable(S)
    /\ Gate(S)
    /\ ~lookup(S)
    /\ Enter(Executor(S)[1], Executor(S)[2], ExecutorArgs(S))
    /\ invoked' = [invoked EXCEPT ![S] = @ + 1]
    /\ cur' = S
    /\ rpc' = "wait"
    /\ UNCHANGED <<caller, fs, dirty, exitCode, interrupted, manifest, execFault,
                   ctx, lastRunAllOk, rerun>>

\* Step 2c: the executor has ended; its outcome goes into the manifest.
process_video_record ==
    /\ caller = "run" /\ rpc = "wait" /\ fpc = "ret"
    /\ manifest' = [manifest EXCEPT ![cur] = Recorded(fret)]
    /\ execFault' = IF faults # {} THEN execFault \cup {cur} ELSE execFault
    /\ rpc' = IF Propagates(fret) THEN "raised" ELSE "walk"
    /\ cur' = "none"
    /\ fpc' = "exited"
    /\ UNCHANGED <<caller, fn, fret, args, calls, fs, dirty, faults, buf,
                   exitCode, interrupted, invoked, ctx, lastRunAllOk, rerun>>

\* Step 3: every stage has an entry; the manifest is returned.
process_video_return ==
    /\ caller = "run" /\ rpc = "walk"
    /\ \A S \in Stages : manifest[S] # "Absent"
    /\ rpc' = "returned"
    /\ UNCHANGED <<caller, fn, fpc, fret, args, calls, fs, dirty, faults, buf,
                   exitCode, interrupted, cur, manifest, invoked, execFault,
                   ctx, lastRunAllOk, rerun>>

\* main() after the call: the results are printed, or the exception is
\* caught and the process exits with status 1.
process_video_exit ==
    /\ caller = "run" /\ rpc \in {"returned", "raised"}
    /\ exitCode' = IF rpc = "raised" THEN 1 ELSE 0
    /\ caller' = "none"
    /\ lastRunAllOk' = (rpc = "returned" /\ \A S \in Stages : Ok(manifest[S]))
    /\ UNCHANGED <<fn, fpc, fret, args, calls, fs, dirty, faults, buf,
                   interrupted, rpc, cur, manifest, invoked, execFault, ctx, rerun>>

(***************************************************************************)
(* Interruption                                                            *)
(***************************************************************************)
\* The file the current call has open for writing, if any.
WritingFile ==
    IF fn = "transcribe_audio" /\ fpc = "write_transcript" THEN "transcript"
    ELSE IF fn = "transcribe_audio" /\ fpc = "write_segments" THEN "segments"
    ELSE IF fn = "summarize_text" /\ fpc = "write" THEN "summary"
    ELSE IF fn = "generate_blog" /\ fpc = "write" THEN "blog"
    ELSE "none"

\* The process is killed (a signal, a power cut) while a stage function has
\* its output file open: the file keeps what reached the disk.
Interrupt ==
    /\ caller # "none"
    /\ WritingFile # "none"
    /\ \E left \in {"empty", "partial"} : fs' = [fs EXCEPT ![WritingFile] = left]
    /\ interrupted' = WritingFile
    /\ caller' = "none"
    /\ fn' = "none" /\ fpc' = "exited" /\ fret' = "pending"
    /\ rpc' = IF caller = "run" THEN "killed" ELSE rpc
    /\ UNCHANGED <<args, calls, dirty, faults, buf, exitCode, cur, manifest,
                   invoked, execFault, ctx, lastRunAllOk, rerun>>

(***************************************************************************)
(* Command-line entry points                                               *)
(***************************************************************************)
\* A process that is not an orchestrator run holds no manifest.
NoRun ==
    /\ rpc' = "idle"
    /\ cur' = "none"
    /\ manifest' = [s \in Stages |-> "Absent"]
    /\ invoked' = [s \in Stages |-> 0]
    /\ execFault' = {}
    /\ ctx' = NoCtx
    /\ lastRunAllOk' = FALSE
    /\ rerun' = FALSE

\* The process starts: a fresh interpreter, nothing interrupted.
CliProcess ==
    /\ caller = "none"
    /\ caller' = "cli"
    /\ exitCode' = -1
    /\ interrupted' = "none"
    /\ dirty' = {}
    /\ NoRun
    /\ UNCHANGED fs

\* sys.exit(1) before any stage function is called.
CliRefuse(kind) ==
    /\ caller = "none"
    /\ exitCode' = 1
    /\ interrupted' = "none"
    /\ dirty' = {}
    /\ fn' = "none" /\ fpc' = "exited" /\ fret' = "pending"
    /\ args' = NoArgs /\ calls' = NoCalls /\ buf' = "absent"
    /\ faults' = {kind}
    /\ NoRun
    /\ UNCHANGED <<caller, fs>>

\* download_video.py: the import guard, then main().
download_video_main ==
    \/ CliRefuse("import")
    \/ /\ CliProcess
       /\ \E u \in Urls : Enter("download_video", "extract_info", [NoArgs EXCEPT !.url = u])

\* transcribe_audio.py: the import guard, the check that the audio file
\* exists, then the call.
transcribe_audio_main ==
    \/ CliRefuse("import")
    \/ /\ fs["media"] = "absent"
       /\ CliRefuse("missing_input")
    \/ /\ fs["media"] # "absent"
       /\ CliProcess
       /\ Enter("transcribe_audio", "load_model", NoArgs)

\* summarize_text.py: argparse admits the methods transformers and openai.
summarize_text_main ==
    \/ /\ fs["transcript"] = "absent"
       /\ CliRefuse("missing_input")
    \/ /\ fs["transcript"] # "absent"
       /\ CliProcess
       /\ \E m \in {"transformers", "openai"}, t \in BOOLEAN, o \in BOOLEAN :
            Enter("summarize_text", "read",
                  [NoArgs EXCEPT !.method = m, !.tf = t, !.oa = o])

\* generate_blog.py: argparse admits the methods template and openai.
generate_blog_main ==
    \/ /\ fs["summary"] = "absent"
       /\ CliRefuse("missing_input")
    \/ /\ fs["summary"] # "absent"
       /\ CliProcess
       /\ \E m \in {"template", "openai"}, o \in BOOLEAN :
            Enter("generate_blog", "read", [NoArgs EXCEPT !.method = m, !.oa = o])

\* `if not result: sys.exit(1)`; an uncaught exception ends the interpreter
\* with status 1 as well.
CliExit ==
    /\ caller = "cli" /\ fpc = "ret"
    /\ exitCode' = IF fret = "value" THEN 0 ELSE 1
    /\ caller' = "none"
    /\ fpc' = "exited"
    /\ UNCHANGED <<fn, fret, args, calls, fs, dirty, faults, buf, interrupted, runVars>>

(***************************************************************************)
(* Specification                                                           *)
(***************************************************************************)
Init ==
    /\ caller = "none"
    /\ fn = "none"
    /\ fpc = "exited"
    /\ fret = "pending"
    /\ args = NoArgs
    /\ calls = NoCalls
    /\ fs = [f \in Files |-> "absent"]
    /\ dirty = {}
    /\ faults = {}
    /\ buf = "absent"
    /\ exitCode = -1
    /\ interrupted = "none"
    /\ rpc = "idle"
    /\ cur = "none"
    /\ manifest = [s \in Stages |-> "Absent"]
    /\ invoked = [s \in Stages |-> 0]
    /\ execFault = {}
    /\ ctx = NoCtx
    /\ lastRunAllOk = FALSE
    /\ rerun = FALSE

Next ==
    \/ download_video_main
    \/ download_video_extract_info
    \/ download_video_download
    \/ transcribe_audio_main
    \/ transcribe_audio_load_model
    \/ transcribe_audio_transcribe
    \/ transcribe_audio_open_transcript
    \/ transcribe_audio_write_transcript
    \/ transcribe_audio_open_segments
    \/ transcribe_audio_write_segments
    \/ summarize_text_main
    \/ summarize_text_read
    \/ summarize_text_call
    \/ summarize_text_open
    \/ summarize_text_write
    \/ generate_blog_main
    \/ generate_blog_read
    \/ generate_blog_call
    \/ generate_blog_open
    \/ generate_blog_write
    \/ CliExit
    \/ create_podcast_synthesize
    \/ process_video_main
    \/ process_video_validate
    \/ \E S \in Stages : process_video_not_attempted(S)
    \/ \E S \in Stages : process_video_skip(S)
    \/ \E S \in Stages : process_video_invoke(S)
    \/ process_video_record
    \/ process_video_return
    \/ process_video_exit
    \/ Interrupt

Spec == Init /\ [][Next]_vars

(***************************************************************************)
(* Properties                                                              *)
(***************************************************************************)
NumFailed == Cardinality({S \in Stages : manifest[S] = "Failed"})

Attempted(outcome) == outcome \in {"Success", "Skipped", "Failed"}

C4_FailFast ==
    (rpc \in {"walk", "wait", "returned", "raised", "killed"}
        /\ ctx.url \in {"ftp", "noturl"}) =>
        /\ rpc = "raised"
        /\ \A S \in Stages : invoked[S] = 0 /\ manifest[S] = "Absent"
        /\ fn = "none"
        /\ calls = NoCalls
        /\ dirty = {}

\* "not-a-url" was rejected.
C4_Witness == rpc = "raised" /\ ctx.url = "noturl" /\ exitCode = 1

\* C5: a run that repeats a run in which every stage was Success or Skipped,
\* with the same context, resolves every stage to Skipped, invokes no
\* executor and writes no file.
C5_Idempotent ==
    (rerun /\ rpc = "returned") =>
        /\ \A S \in Stages : manifest[S] = "Skipped"
        /\ \A S \in Stages : invoked[S] = 0
        /\ dirty = {}

\* C6: after a write is interrupted no empty or partial file is at the
\* artifact's final path.
C6_AtomicPersist ==
    interrupted # "none" => fs[interrupted] \notin {"empty", "partial"}

\* What the exit status is claimed to report.  For a stage tool: no missing
\* input, no unavailable or failing backend, no empty backend result, no
\* write error.  For process_video, whose stage failures are data in the
\* manifest, the unrecovered failure is the run raising.
Succeeded ==
    IF rpc = "idle"
    THEN /\ faults = {}
         /\ ~(fn = "transcribe_audio" /\ buf = "empty")
    ELSE rpc = "returned"

\* C7: a tool that has exited did so with status 0 when its stage succeeded
\* and with status 1 after any unrecovered failure.
C7_ExitStatus == exitCode # -1 => (exitCode = 0 <=> Succeeded)

\* C8: for a URI with an unsupported scheme download_video fails without
\* having called extract_info or download.
C8_RejectBeforeNetwork ==
    (fn = "download_video" /\ args.url = "ftp") =>
        /\ calls["extract_info"] = 0
        /\ calls["download"] = 0
        /\ fret # "value"

\* C9: generate_blog with the template method never calls the hosted API,
\* and for a readable summary (and an output file that can be written) it
\* returns the blog content, whatever OPENAI_AVAILABLE is.
C9_TemplateNeverFails ==
    (fn = "generate_blog" /\ args.method = "template") =>
        /\ calls["openai"] = 0
        /\ "backend_unavailable" \notin faults
        /\ (fpc = "ret" /\ faults \cap {"missing_input", "io_error"} = {})
             => fret = "value" /\ fs["blog"] = "full"

\* The template method returned a post with the hosted API not installed.
C9_Witness ==
    /\ fn = "generate_blog" /\ args.method = "template" /\ ~args.oa
    /\ fpc = "ret" /\ fret = "value"

\* The file the current stage function writes its result to.
OutputFile == IF fn = "summarize_text" THEN "summary" ELSE "blog"

\* C10: a call of a stage function calls each backend operation at most
\* once and never both summarisation backends; a run invokes each executor
\* at most once; after a failed backend call the function has returned
\* None, with no second call and no output written.
C10_SingleAttempt ==
    /\ \A b \in Backends : calls[b] <= 1
    /\ ~(calls["transformers"] >= 1 /\ calls["openai"] >= 1)
    /\ \A S \in Stages : invoked[S] <= 1
    /\ (fn \in {"summarize_text", "generate_blog"}
          /\ faults \cap {"backend_error", "empty_result"} # {})
         => /\ fpc \in {"ret", "exited"}
            /\ fret = "None"
            /\ OutputFile \notin dirty

\* summarize_text returned None after its one backend call failed.
C10_Witness ==
    /\ fn = "summarize_text" /\ fpc = "ret" /\ fret = "None"
    /\ "backend_error" \in faults
    /\ calls[args.method] = 1

\* The output files a stage function writes.
OwnFiles(f) ==
    IF f = "transcribe_audio" THEN {"transcript", "segments"}
    ELSE IF f = "summarize_text" THEN {"summary"}
    ELSE IF f = "generate_blog" THEN {"blog"}
    ELSE {}

\* C11: a call of transcribe_audio, summarize_text or generate_blog that
\* returned None created or overwrote none of its output files.
C11_NoneWroteNothing ==
    (fn \in {"transcribe_audio", "summarize_text", "generate_blog"}
        /\ fret = "None") => OwnFiles(fn) \cap dirty = {}

\* The same for summarize_text and generate_blog alone.
C11_SummaryAndBlogOnly ==
    (fn \in {"summarize_text", "generate_blog"} /\ fret = "None")
        => OwnFiles(fn) \cap dirty = {}

====
